---- MODULE Spec2Model ----
(***************************************************************************)
(* TrivialThreadPool (ttp): the worker pool, its task queue, the Task      *)
(* run-if-not-started protocol and the Future handle, modelled from        *)
(* include/ttp/thread_pool.hpp.                                            *)
(*                                                                         *)
(* Every thread (a pool worker or a calling thread) is a stack of frames;  *)
(* a frame is one active C++ call and its program counter.  One action is  *)
(* one step of one thread between two accesses of shared state.            *)
(***************************************************************************)
EXTENDS Integers, Sequences, FiniteSets, TLC

\* ------------------------------------------------------------------ bounds
\* pool_size given to ThreadPool::ThreadPool
PoolSize == 1
\* calling threads outside the pool
NumClients == 2
\* Task objects created over a run
MaxTasks == 3
\* calls (async, get, wait, the destructor) the calling threads make over a run
MaxCalls == 3

\* Storage / ErasuredType objects (named variables and temporaries) over a run
MaxObjs == 3
\* values put into a Storage or an ErasuredType over a run
MaxValues == 3
\* heap blocks aligned_alloc returns over a run
MaxBlocks == 2
\* calls of details::mover on one value
MaxMoves == 2

Workers == 1..PoolSize
Clients == (PoolSize + 1)..(PoolSize + NumClients)
Threads == Workers \cup Clients
Tasks == 1..MaxTasks
NoThread == 0

VARIABLES
    stack,        \* thread -> sequence of frames, the innermost call last
    mutex,        \* m_task_mutex: the thread that holds it, or NoThread
    m_tasks,      \* the queue of shared Task handles
    m_ongoing,    \* std::atomic<std::size_t> m_ongoing
    m_quit,       \* std::atomic<bool> m_quit
    joined,       \* ~ThreadPool has joined every worker
    kind,         \* task -> what its callable does: "none" before the Task exists
    m_worked_on,  \* task -> Task::m_worked_on (std::atomic_flag)
    m_ready,      \* task -> Task::m_ready
    promise,      \* task -> the result channel: empty, a value or an exception
    barrier,      \* task -> task_barrier / Task::m_future is set
    fut,          \* task -> the Future handle: "none", "held" by the calling
                  \* threads, "waiting" in Future::wait, "local" to the callable
                  \* that submitted, "used"
    result,       \* task -> what Future::get() returned or threw to its caller
    invoked,      \* task -> how many times m_task() was invoked
    runner,       \* task -> the thread that won the claim, or NoThread
    submitted,    \* tasks whose async() has returned
    calls,        \* calls the calling threads have made
    enq,          \* the tasks pushed into m_tasks, in the order of the pushes
    deq,          \* the tasks popped from m_tasks, in the order of the pops
    waited,       \* tasks on whose Future a call of Future::wait() has returned
    terminated,   \* std::terminate was called (an exception left a noexcept function)
    \* unique_function.hpp: Storage<N> and ErasuredType<N> objects
    alive,        \* object -> it is constructed and not yet destroyed
    cap,          \* object -> the N of its Storage<N>
    m_data,       \* object -> Storage::m_data: 0 the inline buffer, else the heap block
    held,         \* object -> the value whose live instance is in its storage, or 0
    m_valid,      \* object -> ErasuredType::m_valid
    captured,     \* object -> the value whose mover and destroyer m_mover and
                  \* m_destroyer point to, or 0
    vtype,        \* value -> its type, as size and alignment
    allocs,       \* heap block -> calls of aligned_alloc that returned it
    frees,        \* heap block -> calls of aligned_free on it
    moverCalls,   \* value -> calls of details::mover<T> on it
    destroyerCalls \* value -> calls of details::destroyer<T> on it

vars == <<stack, mutex, m_tasks, m_ongoing, m_quit, joined, kind, m_worked_on,
          m_ready, promise, barrier, fut, result, invoked, runner, submitted,
          calls, enq, deq, waited, terminated, alive, cap, m_data, held, m_valid, captured,
          vtype, allocs, frees, moverCalls, destroyerCalls>>

ttpVars == <<stack, mutex, m_tasks, m_ongoing, m_quit, joined, kind, m_worked_on,
             m_ready, promise, barrier, fut, result, invoked, runner, submitted,
             calls, enq, deq, waited, terminated>>
storageVars == <<alive, cap, m_data, held, vtype, allocs, frees>>
erasuredVars == <<m_valid, captured, moverCalls, destroyerCalls>>
ufVars == <<storageVars, erasuredVars>>

histVars == <<enq, deq, waited>>

poolVars == <<mutex, m_tasks, m_ongoing, m_quit, joined>>
taskVars == <<kind, m_worked_on, m_ready, promise, barrier, invoked, runner>>
futVars == <<fut, result, submitted>>

\* ------------------------------------------------- unique_function.hpp, data
Objs == 1..MaxObjs
Values == 1..MaxValues
Blocks == 1..MaxBlocks

\* a type T, as sizeof(T) and alignof(T)
Type(s, a) == [size |-> s, align |-> a]
NoType == Type(0, 0)
\* uint32_t, int64_t (the tests' Storage<4>), and types at and beyond the
\* limits of a Storage<32>: 32 bytes, over-aligned, 64 bytes
ValueTypes == {Type(4, 4), Type(8, 8), Type(32, 16), Type(32, 32), Type(64, 16)}
\* the types the tests put into an ErasuredType: inline or on the heap by size
ErasuredTypes == {Type(4, 4), Type(8, 8)}
\* the N of Storage<N>: the tests' Storage<4>, and sizeof(void*) * 4
Capacities == {4, 32}
\* alignof(inline_storage_t), which is alignof(std::max_align_t)
inline_alignment == 16

\* no Storage, no ErasuredType, no value and no heap block exists
UfInit ==
    /\ alive = [o \in Objs |-> FALSE]
    /\ cap = [o \in Objs |-> 0]
    /\ m_data = [o \in Objs |-> 0]
    /\ held = [o \in Objs |-> 0]
    /\ m_valid = [o \in Objs |-> FALSE]
    /\ captured = [o \in Objs |-> 0]
    /\ vtype = [v \in Values |-> NoType]
    /\ allocs = [b \in Blocks |-> 0]
    /\ frees = [b \in Blocks |-> 0]
    /\ moverCalls = [v \in Values |-> 0]
    /\ destroyerCalls = [v \in Values |-> 0]

\* ------------------------------------------------------------ result channel
\* std::future/std::promise shared state: no outcome yet, an exception, a value
Empty == [tag |-> "empty", v |-> 0]
Exc == [tag |-> "exc", v |-> 0]
Value(n) == [tag |-> "val", v |-> n]
\* Future::get() has not returned yet
NotYet == [tag |-> "none", v |-> 0]

\* test/tests.cpp: int func(int a, int b) { return 2 * a + b; }
func(a, b) == 2 * a + b

\* every task bound to the arguments of the first one
CallableFirst(t) == func(0, 3)

\* test/tests.cpp "Free function": the i-th task is pool.async(func, i, 3)
Callable(t) == func(t - 1, 3)

\* A nested callable submits its child and calls get() on the child's Future;
\* the child's Task is the next one created.
Child(t) == t + 1

\* ------------------------------------------------------------------ frames
\* enum class Wait { Async, Sync }
Async == 0
Sync == 1

\* a frame: its program counter, the Task it works on (0: none), and for
\* ThreadPool::wait its argument and the tasks submitted before the call
Frame(p, t) == [pc |-> p, t |-> t, how |-> Async, snap |-> {}]
WaitFrame(p, how, s) == [pc |-> p, t |-> 0, how |-> how, snap |-> s]
Top(th) == stack[th][Len(stack[th])]
Depth(th) == Len(stack[th])
\* thread th is at pc p of its innermost call; after std::terminate no thread is anywhere
At(th, p) == ~terminated /\ Top(th).pc = p

\* the stack of th with its innermost frame's pc replaced
Goto(th, p) == [stack[th] EXCEPT ![Len(stack[th])].pc = p]
\* the stack of th once its innermost call has returned
Return(th) == SubSeq(stack[th], 1, Len(stack[th]) - 1)
\* the stack of th with the innermost pc replaced and a call pushed
Call(th, p, f) == Append(Goto(th, p), f)

KindOf(t) == IF t \in Tasks THEN kind[t] ELSE "none"

\* ------------------------------------------------------ condition variables
\* the threads blocked inside condition_variable::wait at pc blockedPc
Blocked(blockedPc) == {w \in Threads : At(w, blockedPc)}

\* notify_one by th, which goes on with stack own: one blocked thread, if there
\* is any, leaves the wait and has to take the mutex again at relockPc
NotifyOne(th, own, blockedPc, relockPc) ==
    IF Blocked(blockedPc) = {}
    THEN stack' = [stack EXCEPT ![th] = own]
    ELSE \E w \in Blocked(blockedPc) :
             stack' = [stack EXCEPT ![th] = own, ![w] = Goto(w, relockPc)]

\* notify_all by th
NotifyAll(th, own, blockedPc, relockPc) ==
    stack' = [x \in Threads |->
                 IF x = th THEN own
                 ELSE IF At(x, blockedPc) THEN Goto(x, relockPc)
                 ELSE stack[x]]

\* a wait on a condition variable may return without any notify
SpuriousWake(th) ==
    /\ \/ At(th, "dw_blocked") /\ stack' = [stack EXCEPT ![th] = Goto(th, "dw_lock")]
       \/ At(th, "pw_blocked") /\ stack' = [stack EXCEPT ![th] = Goto(th, "pw_lock2")]
    /\ UNCHANGED <<poolVars, taskVars, futVars, calls, terminated, histVars, ufVars>>

\* ------------------------------------------------------------------- Task
\* a pop from the back of the queue: the task pushed last is taken first
DequeueBack(th, after) ==
    /\ m_ongoing' = m_ongoing + 1
    /\ m_tasks' = SubSeq(m_tasks, 1, Len(m_tasks) - 1)
    /\ deq' = Append(deq, m_tasks[Len(m_tasks)])
    /\ mutex' = NoThread
    /\ stack' = [stack EXCEPT ![th] =
                    Call(th, after, Frame("tr_claim", m_tasks[Len(m_tasks)]))]

\* a pop that does not count the task as in flight
DequeueUncounted(th, after) ==
    /\ m_ongoing' = m_ongoing
    /\ m_tasks' = Tail(m_tasks)
    /\ deq' = Append(deq, Head(m_tasks))
    /\ mutex' = NoThread
    /\ stack' = [stack EXCEPT ![th] = Call(th, after, Frame("tr_claim", Head(m_tasks)))]

\* ++m_ongoing; auto task = std::move(m_tasks.front()); m_tasks.pop();
\* lock.unlock(); task->try_run(); the caller goes on at pc after try_run
Dequeue(th, after) ==
    /\ m_ongoing' = m_ongoing + 1
    /\ m_tasks' = Tail(m_tasks)
    /\ deq' = Append(deq, Head(m_tasks))
    /\ mutex' = NoThread
    /\ stack' = [stack EXCEPT ![th] = Call(th, after, Frame("tr_claim", Head(m_tasks)))]

\* a test of m_worked_on that does not set it: every caller sees it clear
test_only(t) == m_worked_on

\* std::atomic_flag::test_and_set on m_worked_on of t: the flag afterwards
test_and_set(t) == [m_worked_on EXCEPT ![t] = TRUE]

\* a try_run that sets m_ready as soon as it has claimed the Task
TryRunReadyFirst(th) ==
    /\ At(th, "tr_claim")
    /\ LET t == Top(th).t IN
       /\ m_worked_on' = test_and_set(t)
       /\ IF ~m_worked_on[t]
          THEN /\ invoked' = [invoked EXCEPT ![t] = @ + 1]
               /\ runner' = [runner EXCEPT ![t] = th]
               /\ m_ready' = [m_ready EXCEPT ![t] = TRUE]
               /\ stack' = [stack EXCEPT ![th] = Call(th, "tr_ready", Frame("mt_run", t))]
          ELSE /\ stack' = [stack EXCEPT ![th] = Return(th)]
               /\ UNCHANGED <<invoked, runner, m_ready>>
    /\ UNCHANGED <<poolVars, kind, promise, barrier, futVars, calls, terminated, histVars, ufVars>>

\* a try_run whose caller, finding the flag set, waits until the Task is ready
TryRunWaits(th) ==
    /\ At(th, "tr_claim")
    /\ LET t == Top(th).t IN
       /\ m_worked_on' = test_and_set(t)
       /\ IF ~m_worked_on[t]
          THEN /\ invoked' = [invoked EXCEPT ![t] = @ + 1]
               /\ runner' = [runner EXCEPT ![t] = th]
               /\ stack' = [stack EXCEPT ![th] = Call(th, "tr_ready", Frame("mt_run", t))]
          ELSE /\ m_ready[t]
               /\ stack' = [stack EXCEPT ![th] = Return(th)]
               /\ UNCHANGED <<invoked, runner>>
    /\ UNCHANGED <<poolVars, kind, m_ready, promise, barrier, futVars, calls, terminated, histVars, ufVars>>

\* Task::try_run, the claim: if (!m_worked_on.test_and_set()) { m_task(); ...
TryRun(th) ==
    /\ At(th, "tr_claim")
    /\ LET t == Top(th).t IN
       /\ m_worked_on' = test_and_set(t)
       /\ IF ~m_worked_on[t]
          THEN /\ invoked' = [invoked EXCEPT ![t] = @ + 1]
               /\ runner' = [runner EXCEPT ![t] = th]
               /\ stack' = [stack EXCEPT ![th] = Call(th, "tr_ready", Frame("mt_run", t))]
          ELSE /\ stack' = [stack EXCEPT ![th] = Return(th)]
               /\ UNCHANGED <<invoked, runner>>
    /\ UNCHANGED <<poolVars, kind, m_ready, promise, barrier, futVars, calls, terminated, histVars, ufVars>>

\* Task::try_run after m_task() returned: m_ready = true
TryRunReady(th) ==
    /\ At(th, "tr_ready")
    /\ m_ready' = [m_ready EXCEPT ![Top(th).t] = TRUE]
    /\ stack' = [stack EXCEPT ![th] = Return(th)]
    /\ UNCHANGED <<poolVars, kind, m_worked_on, promise, barrier, invoked, runner,
                   futVars, calls, terminated, histVars, ufVars>>

\* the m_task lambda without its try/catch: the exception leaves a noexcept
\* function and std::terminate is called
SettleNoCatch(t, outcome) ==
    IF outcome = Exc
    THEN terminated' = TRUE /\ UNCHANGED promise
    ELSE promise' = [promise EXCEPT ![t] = outcome] /\ UNCHANGED terminated

\* a catch (...) that drops the exception and delivers a default value
SettleSwallow(t, outcome) ==
    /\ promise' = [promise EXCEPT ![t] = IF outcome = Exc THEN Value(0) ELSE outcome]
    /\ UNCHANGED terminated

\* the try/catch of the m_task lambda: the callable's outcome goes into the
\* promise, a value by set_value and an exception by set_exception
Settle(t, outcome) ==
    /\ promise' = [promise EXCEPT ![t] = outcome]
    /\ UNCHANGED terminated

\* the m_task lambda running a callable that does not use the pool
TaskRun(th) ==
    /\ At(th, "mt_run")
    /\ LET t == Top(th).t IN
       /\ kind[t] \in {"plain", "throw"}
       /\ Settle(t, IF kind[t] = "throw" THEN Exc ELSE Value(Callable(t)))
    /\ stack' = [stack EXCEPT ![th] = Goto(th, "mt_barrier")]
    /\ UNCHANGED <<poolVars, kind, m_worked_on, m_ready, barrier, invoked, runner, futVars, calls, histVars, ufVars>>

\* the m_task lambda: task_barrier.set_value()
TaskBarrier(th) ==
    /\ At(th, "mt_barrier")
    /\ barrier' = [barrier EXCEPT ![Top(th).t] = TRUE]
    /\ stack' = [stack EXCEPT ![th] = Return(th)]
    /\ UNCHANGED <<poolVars, kind, m_worked_on, m_ready, promise, invoked, runner,
                   futVars, calls, terminated, histVars, ufVars>>

\* ------------------------------------------------------------ ThreadPool::async
\* the Tasks created so far, with those the callables created so far will create
Planned == {t \in Tasks : kind[t] # "none"}

\* async, the lock_guard scope: m_tasks.push(wrapped_task), then the unlock
AsyncPush(th) ==
    /\ At(th, "as_push")
    /\ mutex = th
    /\ m_tasks' = Append(m_tasks, Top(th).t)
    /\ mutex' = NoThread
    /\ stack' = [stack EXCEPT ![th] = Goto(th, "as_notify")]
    /\ enq' = Append(enq, Top(th).t)
    /\ UNCHANGED <<m_ongoing, m_quit, joined, taskVars, futVars, calls, terminated, deq, waited, ufVars>>

\* async without m_work_condition.notify_one()
AsyncNoNotify(th) ==
    /\ At(th, "as_notify")
    /\ stack' = [stack EXCEPT ![th] = Return(th)]
    /\ submitted' = submitted \cup {Top(th).t}
    /\ fut' = [fut EXCEPT ![Top(th).t] =
                  IF stack[th][Depth(th) - 1].pc = "idle" THEN "held" ELSE "local"]
    /\ UNCHANGED <<poolVars, taskVars, result, calls, terminated, histVars, ufVars>>

\* async: m_work_condition.notify_one(), then the Future is returned; a Future
\* returned to a calling thread is held until some calling thread uses it
AsyncNotify(th) ==
    /\ At(th, "as_notify")
    /\ NotifyOne(th, Return(th), "dw_blocked", "dw_lock")
    /\ submitted' = submitted \cup {Top(th).t}
    /\ fut' = [fut EXCEPT ![Top(th).t] =
                  IF stack[th][Depth(th) - 1].pc = "idle" THEN "held" ELSE "local"]
    /\ UNCHANGED <<poolVars, taskVars, result, calls, terminated, histVars, ufVars>>

\* a calling thread calls pool.async(callable): make_shared<Task>, then the
\* lock_guard is taken.  The callable is plain or throwing (leaf), below depth
\* callables that each submit the next one and call get() on it.
Submit(c, depth, leaf) ==
    /\ At(c, "idle")
    /\ calls < MaxCalls
    /\ calls' = calls + 1
    /\ ~m_quit
    /\ mutex = NoThread
    /\ LET first == Cardinality(Planned) + 1 IN
       /\ first + depth <= MaxTasks
       /\ kind' = [t \in Tasks |->
                      IF t \in first..(first + depth - 1) THEN "nested"
                      ELSE IF t = first + depth THEN leaf
                      ELSE kind[t]]
       /\ stack' = [stack EXCEPT ![c] = Call(c, "idle", Frame("as_push", first))]
    /\ mutex' = c
    /\ UNCHANGED <<m_tasks, m_ongoing, m_quit, joined, m_worked_on, m_ready, promise,
                   barrier, invoked, runner, futVars, terminated, histVars, ufVars>>

\* the m_task lambda running a callable that calls pool.async(child)
TaskSubmit(th) ==
    /\ At(th, "mt_run")
    /\ kind[Top(th).t] = "nested"
    /\ mutex = NoThread
    /\ mutex' = th
    /\ stack' = [stack EXCEPT ![th] = Call(th, "mt_get", Frame("as_push", Child(Top(th).t)))]
    /\ UNCHANGED <<m_tasks, m_ongoing, m_quit, joined, taskVars, futVars, calls, terminated, histVars, ufVars>>

\* ------------------------------------------------------------------ Future
\* a get() that only reads the result channel
ReadFrames(st, t) == Append(st, Frame("get_read", t))

\* Future::get: m_task->try_run() first, then m_future.get()
GetFrames(st, t) == Append(Append(st, Frame("get_read", t)), Frame("tr_claim", t))

\* a read of the result channel that does not block
FutureGetNoBlock(th) ==
    /\ At(th, "get_read")
    /\ result' = [result EXCEPT ![Top(th).t] = promise[Top(th).t]]
    /\ stack' = [stack EXCEPT ![th] = Return(th)]
    /\ UNCHANGED <<poolVars, taskVars, fut, submitted, calls, terminated, histVars, ufVars>>

\* Future::get: m_future.get() blocks until the promise holds an outcome, then
\* returns the value or rethrows the exception
FutureGet(th) ==
    /\ At(th, "get_read")
    /\ promise[Top(th).t] # Empty
    /\ result' = [result EXCEPT ![Top(th).t] = promise[Top(th).t]]
    /\ stack' = [stack EXCEPT ![th] = Return(th)]
    /\ UNCHANGED <<poolVars, taskVars, fut, submitted, calls, terminated, histVars, ufVars>>

\* a calling thread's get() that leaves the Task to the pool
GetNoTryRun(c, t) ==
    /\ At(c, "idle")
    /\ calls < MaxCalls
    /\ calls' = calls + 1
    /\ fut[t] = "held"
    /\ m_quit => kind[t] # "nested"
    /\ fut' = [fut EXCEPT ![t] = "used"]
    /\ stack' = [stack EXCEPT ![c] = Append(stack[c], Frame("get_read", t))]
    /\ UNCHANGED <<poolVars, taskVars, result, submitted, terminated, histVars, ufVars>>

\* a calling thread calls get() on a Future it holds; a callable that uses the
\* pool must not run once the pool is being destroyed
Get(c, t) ==
    /\ At(c, "idle")
    /\ calls < MaxCalls
    /\ calls' = calls + 1
    /\ fut[t] = "held"
    /\ m_quit => kind[t] # "nested"
    /\ fut' = [fut EXCEPT ![t] = "used"]
    /\ stack' = [stack EXCEPT ![c] = GetFrames(stack[c], t)]
    /\ UNCHANGED <<poolVars, taskVars, result, submitted, terminated, histVars, ufVars>>

\* a wait() that returns whether or not the result channel holds an outcome
FutureWaitNoBlock(th) ==
    /\ At(th, "fw_wait")
    /\ fut' = [fut EXCEPT ![Top(th).t] = "held"]
    /\ waited' = waited \cup {Top(th).t}
    /\ stack' = [stack EXCEPT ![th] = Return(th)]
    /\ UNCHANGED <<poolVars, taskVars, result, submitted, calls, terminated, enq, deq, ufVars>>

\* Future::wait: m_future.wait() blocks until the promise holds an outcome and
\* leaves it there; the calling thread has its Future back
FutureWait(th) ==
    /\ At(th, "fw_wait")
    /\ promise[Top(th).t] # Empty
    /\ fut' = [fut EXCEPT ![Top(th).t] = "held"]
    /\ waited' = waited \cup {Top(th).t}
    /\ stack' = [stack EXCEPT ![th] = Return(th)]
    /\ UNCHANGED <<poolVars, taskVars, result, submitted, calls, terminated, enq, deq, ufVars>>

\* a calling thread calls wait() on a Future it holds; the Future is in use by
\* that thread until the call returns
WaitOn(c, t) ==
    /\ At(c, "idle")
    /\ calls < MaxCalls
    /\ calls' = calls + 1
    /\ fut[t] = "held"
    /\ fut' = [fut EXCEPT ![t] = "waiting"]
    /\ stack' = [stack EXCEPT ![c] = Append(stack[c], Frame("fw_wait", t))]
    /\ UNCHANGED <<poolVars, taskVars, result, submitted, terminated, histVars, ufVars>>

\* the nested callable calls get() on the Future of its child
TaskGet(th) ==
    /\ At(th, "mt_get")
    /\ fut' = [fut EXCEPT ![Child(Top(th).t)] = "used"]
    /\ stack' = [stack EXCEPT ![th] = GetFrames(Goto(th, "mt_finish"), Child(Top(th).t))]
    /\ UNCHANGED <<poolVars, taskVars, result, submitted, calls, terminated, histVars, ufVars>>

\* the nested callable after get(): an exception thrown by get() leaves the
\* callable, otherwise the callable returns its own value
TaskFinish(th) ==
    /\ At(th, "mt_finish")
    /\ LET t == Top(th).t IN
       Settle(t, IF result[Child(t)] = Exc THEN Exc ELSE Value(Callable(t)))
    /\ stack' = [stack EXCEPT ![th] = Goto(th, "mt_barrier")]
    /\ UNCHANGED <<poolVars, kind, m_worked_on, m_ready, barrier, invoked, runner, futVars, calls, histVars, ufVars>>

\* ------------------------------------------------------ ThreadPool::do_work
\* std::unique_lock lock(m_task_mutex) on entry, lock.lock() at the end of the
\* loop body, and the lock taken again when the wait is left
DoWorkLock(w) ==
    /\ At(w, "dw_lock")
    /\ mutex = NoThread
    /\ mutex' = w
    /\ stack' = [stack EXCEPT ![w] = Goto(w, "dw_pred")]
    /\ UNCHANGED <<m_tasks, m_ongoing, m_quit, joined, taskVars, futVars, calls, terminated, histVars, ufVars>>

\* a wait without its predicate: the worker goes on whatever the queue holds
DoWorkPredNoCheck(w) ==
    /\ At(w, "dw_pred")
    /\ mutex = w
    /\ stack' = [stack EXCEPT ![w] = Goto(w, "dw_quit")]
    /\ UNCHANGED <<poolVars, taskVars, futVars, calls, terminated, histVars, ufVars>>

\* m_work_condition.wait(lock, pred): the predicate m_quit || !m_tasks.empty()
DoWorkPred(w) ==
    /\ At(w, "dw_pred")
    /\ mutex = w
    /\ stack' = [stack EXCEPT ![w] =
                    Goto(w, IF m_quit \/ m_tasks # <<>> THEN "dw_quit" ELSE "dw_block")]
    /\ UNCHANGED <<poolVars, taskVars, futVars, calls, terminated, histVars, ufVars>>

\* m_work_condition.wait: the mutex is released and the thread blocks, atomically
DoWorkBlock(w) ==
    /\ At(w, "dw_block")
    /\ mutex = w
    /\ mutex' = NoThread
    /\ stack' = [stack EXCEPT ![w] = Goto(w, "dw_blocked")]
    /\ UNCHANGED <<m_tasks, m_ongoing, m_quit, joined, taskVars, futVars, calls, terminated, histVars, ufVars>>

\* a worker that finds the shutdown flag set but tasks in the queue takes the
\* front task instead of leaving
DoWorkQuitDrain(w) ==
    /\ At(w, "dw_quit")
    /\ mutex = w
    /\ m_quit
    /\ IF m_tasks = <<>>
       THEN /\ mutex' = NoThread
            /\ stack' = [stack EXCEPT ![w] = Goto(w, "dw_done")]
            /\ UNCHANGED <<m_tasks, m_ongoing, deq>>
       ELSE Dequeue(w, "dw_dec")
    /\ UNCHANGED <<m_quit, joined, taskVars, futVars, calls, terminated, enq, waited, ufVars>>

\* if (m_quit) break; and the unique_lock's destructor unlocks
DoWorkQuit(w) ==
    /\ At(w, "dw_quit")
    /\ mutex = w
    /\ m_quit
    /\ mutex' = NoThread
    /\ stack' = [stack EXCEPT ![w] = Goto(w, "dw_done")]
    /\ UNCHANGED <<m_tasks, m_ongoing, m_quit, joined, taskVars, futVars, calls, terminated, histVars, ufVars>>

\* if (m_quit) reads false: the worker goes on to the dequeue; m_quit is
\* written without the mutex, so the flag may be set before the dequeue
DoWorkNoQuit(w) ==
    /\ At(w, "dw_quit")
    /\ mutex = w
    /\ ~m_quit
    /\ stack' = [stack EXCEPT ![w] = Goto(w, "dw_take")]
    /\ UNCHANGED <<poolVars, taskVars, futVars, calls, terminated, histVars, ufVars>>

\* the worker takes the front task and runs it
DoWorkTake(w) ==
    /\ At(w, "dw_take")
    /\ mutex = w
    /\ Dequeue(w, "dw_dec")
    /\ UNCHANGED <<m_quit, joined, taskVars, futVars, calls, terminated, enq, waited, ufVars>>

\* --m_ongoing, not under the mutex
DoWorkDec(w) ==
    /\ At(w, "dw_dec")
    /\ m_ongoing' = m_ongoing - 1
    /\ stack' = [stack EXCEPT ![w] = Goto(w, "dw_notify")]
    /\ UNCHANGED <<mutex, m_tasks, m_quit, joined, taskVars, futVars, calls, terminated, histVars, ufVars>>

\* m_complete_condition.notify_one()
DoWorkNotify(w) ==
    /\ At(w, "dw_notify")
    /\ NotifyOne(w, Goto(w, "dw_lock"), "pw_blocked", "pw_lock2")
    /\ UNCHANGED <<poolVars, taskVars, futVars, calls, terminated, histVars, ufVars>>

\* --------------------------------------------------------- ThreadPool::wait
\* a wait that enters the drain loop whatever its argument is
PoolWaitDrains(c, how) ==
    /\ At(c, "idle")
    /\ calls < MaxCalls
    /\ calls' = calls + 1
    /\ ~m_quit
    /\ mutex = NoThread
    /\ mutex' = c
    /\ stack' = [stack EXCEPT ![c] = Call(c, "idle", WaitFrame("pw_empty", how, submitted))]
    /\ UNCHANGED <<m_tasks, m_ongoing, m_quit, joined, taskVars, futVars, terminated, histVars, ufVars>>

\* a calling thread calls pool.wait(how): with Wait::Async the drain loop takes
\* the mutex first, with Wait::Sync the final unique_lock does
PoolWait(c, how) ==
    /\ At(c, "idle")
    /\ calls < MaxCalls
    /\ calls' = calls + 1
    /\ ~m_quit
    /\ mutex = NoThread
    /\ mutex' = c
    /\ stack' = [stack EXCEPT ![c] =
                    Call(c, "idle", WaitFrame(IF how = Async THEN "pw_empty" ELSE "pw_pred",
                                              how, submitted))]
    /\ UNCHANGED <<m_tasks, m_ongoing, m_quit, joined, taskVars, futVars, terminated, histVars, ufVars>>

\* the drain loop: std::unique_lock lock(m_task_mutex) of the next iteration
WaitLock(c) ==
    /\ At(c, "pw_lock")
    /\ mutex = NoThread
    /\ mutex' = c
    /\ stack' = [stack EXCEPT ![c] = Goto(c, "pw_empty")]
    /\ UNCHANGED <<m_tasks, m_ongoing, m_quit, joined, taskVars, futVars, calls, terminated, histVars, ufVars>>

\* the drain loop: if (m_tasks.empty()) break; the lock is released by the break
WaitBreak(c) ==
    /\ At(c, "pw_empty")
    /\ mutex = c
    /\ m_tasks = <<>>
    /\ mutex' = NoThread
    /\ stack' = [stack EXCEPT ![c] = Goto(c, "pw_lock2")]
    /\ UNCHANGED <<m_tasks, m_ongoing, m_quit, joined, taskVars, futVars, calls, terminated, histVars, ufVars>>

\* the drain loop: otherwise the caller takes the front task and runs it
WaitTake(c) ==
    /\ At(c, "pw_empty")
    /\ mutex = c
    /\ m_tasks # <<>>
    /\ Dequeue(c, "pw_dec")
    /\ UNCHANGED <<m_quit, joined, taskVars, futVars, calls, terminated, enq, waited, ufVars>>

\* the drain loop: --m_ongoing, with no notify
WaitDec(c) ==
    /\ At(c, "pw_dec")
    /\ m_ongoing' = m_ongoing - 1
    /\ stack' = [stack EXCEPT ![c] = Goto(c, "pw_lock")]
    /\ UNCHANGED <<mutex, m_tasks, m_quit, joined, taskVars, futVars, calls, terminated, histVars, ufVars>>

\* std::unique_lock lock(m_task_mutex) before m_complete_condition.wait, and
\* the lock taken again when the wait is left
WaitLock2(c) ==
    /\ At(c, "pw_lock2")
    /\ mutex = NoThread
    /\ mutex' = c
    /\ stack' = [stack EXCEPT ![c] = Goto(c, "pw_pred")]
    /\ UNCHANGED <<m_tasks, m_ongoing, m_quit, joined, taskVars, futVars, calls, terminated, histVars, ufVars>>

\* m_complete_condition.wait(lock, pred): the predicate m_ongoing == 0; when
\* it holds wait() is over and the unique_lock's destructor unlocks
WaitPred(c) ==
    /\ At(c, "pw_pred")
    /\ mutex = c
    /\ IF m_ongoing = 0
       THEN /\ mutex' = NoThread
            /\ stack' = [stack EXCEPT ![c] = Goto(c, "pw_ret")]
       ELSE /\ stack' = [stack EXCEPT ![c] = Goto(c, "pw_block")]
            /\ UNCHANGED mutex
    /\ UNCHANGED <<m_tasks, m_ongoing, m_quit, joined, taskVars, futVars, calls, terminated, histVars, ufVars>>

\* m_complete_condition.wait: the mutex is released and the thread blocks, atomically
WaitBlock(c) ==
    /\ At(c, "pw_block")
    /\ mutex = c
    /\ mutex' = NoThread
    /\ stack' = [stack EXCEPT ![c] = Goto(c, "pw_blocked")]
    /\ UNCHANGED <<m_tasks, m_ongoing, m_quit, joined, taskVars, futVars, calls, terminated, histVars, ufVars>>

\* ThreadPool::wait returns to its caller
WaitReturn(c) ==
    /\ At(c, "pw_ret")
    /\ stack' = [stack EXCEPT ![c] = Return(c)]
    /\ UNCHANGED <<poolVars, taskVars, futVars, calls, terminated, histVars, ufVars>>

\* ------------------------------------------------ ThreadPool::~ThreadPool
\* a frame of a call into the pool, or of a callable that will call into it
InPool(f) ==
    \/ f.pc \in {"as_push", "as_notify", "pw_lock", "pw_empty", "pw_dec", "pw_lock2",
                 "pw_pred", "pw_block", "pw_blocked", "pw_ret"}
    \/ f.pc \in {"tr_claim", "mt_run", "mt_get"} /\ KindOf(f.t) = "nested"
UsesPool(th) == \E i \in 1..Len(stack[th]) : InPool(stack[th][i])

\* a calling thread destroys the pool while no other calling thread is inside
\* it: m_quit = true
Destroy(c) ==
    /\ At(c, "idle")
    /\ calls < MaxCalls
    /\ calls' = calls + 1
    /\ ~m_quit
    /\ \A o \in Clients \ {c} : ~UsesPool(o)
    /\ m_quit' = TRUE
    /\ stack' = [stack EXCEPT ![c] = Call(c, "idle", Frame("ds_notify", 0))]
    /\ UNCHANGED <<mutex, m_tasks, m_ongoing, joined, taskVars, futVars, terminated, histVars, ufVars>>

\* m_work_condition.notify_all()
DestroyNotify(c) ==
    /\ At(c, "ds_notify")
    /\ NotifyAll(c, Goto(c, "ds_join"), "dw_blocked", "dw_lock")
    /\ UNCHANGED <<poolVars, taskVars, futVars, calls, terminated, histVars, ufVars>>

\* a pool that alone owns its tasks: the destructor releases the tasks still
\* in the queue, and nobody can run them any more
DestroyJoinReleases(c) ==
    /\ At(c, "ds_join")
    /\ \A w \in Workers : At(w, "dw_done")
    /\ joined' = TRUE
    /\ m_worked_on' = [t \in Tasks |->
                          m_worked_on[t] \/ \E i \in 1..Len(m_tasks) : m_tasks[i] = t]
    /\ stack' = [stack EXCEPT ![c] = Return(c)]
    /\ UNCHANGED <<mutex, m_tasks, m_ongoing, m_quit, kind, m_ready, promise, barrier,
                   invoked, runner, futVars, calls, terminated, histVars, ufVars>>

\* for (auto& worker : m_workers) worker.join()
DestroyJoin(c) ==
    /\ At(c, "ds_join")
    /\ \A w \in Workers : At(w, "dw_done")
    /\ joined' = TRUE
    /\ stack' = [stack EXCEPT ![c] = Return(c)]
    /\ UNCHANGED <<mutex, m_tasks, m_ongoing, m_quit, taskVars, futVars, calls, terminated, histVars, ufVars>>

\* ------------------------------------------------------------ specification
\* ThreadPool::ThreadPool: m_ongoing = 0, m_quit = false, every worker thread
\* enters do_work; no Task exists
Init ==
    /\ stack = [th \in Threads |->
                   IF th \in Workers THEN <<Frame("dw_lock", 0)>> ELSE <<Frame("idle", 0)>>]
    /\ mutex = NoThread
    /\ m_tasks = <<>>
    /\ m_ongoing = 0
    /\ m_quit = FALSE
    /\ joined = FALSE
    /\ kind = [t \in Tasks |-> "none"]
    /\ m_worked_on = [t \in Tasks |-> FALSE]
    /\ m_ready = [t \in Tasks |-> FALSE]
    /\ promise = [t \in Tasks |-> Empty]
    /\ barrier = [t \in Tasks |-> FALSE]
    /\ fut = [t \in Tasks |-> "none"]
    /\ result = [t \in Tasks |-> NotYet]
    /\ invoked = [t \in Tasks |-> 0]
    /\ runner = [t \in Tasks |-> NoThread]
    /\ submitted = {}
    /\ calls = 0
    /\ enq = <<>>
    /\ deq = <<>>
    /\ waited = {}
    /\ terminated = FALSE
    /\ UfInit

\* the thread that constructs the pool, submits to it, waits on it and
\* destroys it; the other calling threads call get() on Futures handed to them
Main == PoolSize + 1

\* a step of thread th inside the call it is in
Run(th) ==
    \/ TryRun(th)
    \/ TryRunReady(th)
    \/ TaskRun(th)
    \/ TaskSubmit(th)
    \/ TaskGet(th)
    \/ TaskFinish(th)
    \/ TaskBarrier(th)
    \/ AsyncPush(th)
    \/ AsyncNotify(th)
    \/ FutureGet(th)
    \/ DoWorkLock(th)
    \/ DoWorkPred(th)
    \/ DoWorkBlock(th)
    \/ DoWorkQuit(th)
    \/ DoWorkNoQuit(th)
    \/ DoWorkTake(th)
    \/ DoWorkDec(th)
    \/ DoWorkNotify(th)
    \/ WaitLock(th)
    \/ WaitBreak(th)
    \/ WaitTake(th)
    \/ WaitDec(th)
    \/ WaitLock2(th)
    \/ WaitPred(th)
    \/ WaitBlock(th)
    \/ WaitReturn(th)
    \/ DestroyNotify(th)
    \/ DestroyJoin(th)

\* a step of any thread inside a call, or a spurious wake-up
Steps ==
    \/ \E th \in Threads : TryRun(th)
    \/ \E th \in Threads : TryRunReady(th)
    \/ \E th \in Threads : TaskRun(th)
    \/ \E th \in Threads : TaskSubmit(th)
    \/ \E th \in Threads : TaskGet(th)
    \/ \E th \in Threads : TaskFinish(th)
    \/ \E th \in Threads : TaskBarrier(th)
    \/ \E th \in Threads : AsyncPush(th)
    \/ \E th \in Threads : AsyncNotify(th)
    \/ \E th \in Threads : FutureGet(th)
    \/ \E th \in Threads : DoWorkLock(th)
    \/ \E th \in Threads : DoWorkPred(th)
    \/ \E th \in Threads : DoWorkBlock(th)
    \/ \E th \in Threads : DoWorkQuit(th)
    \/ \E th \in Threads : DoWorkNoQuit(th)
    \/ \E th \in Threads : DoWorkTake(th)
    \/ \E th \in Threads : DoWorkDec(th)
    \/ \E th \in Threads : DoWorkNotify(th)
    \/ \E th \in Threads : WaitLock(th)
    \/ \E th \in Threads : WaitBreak(th)
    \/ \E th \in Threads : WaitTake(th)
    \/ \E th \in Threads : WaitDec(th)
    \/ \E th \in Threads : WaitLock2(th)
    \/ \E th \in Threads : WaitPred(th)
    \/ \E th \in Threads : WaitBlock(th)
    \/ \E th \in Threads : WaitReturn(th)
    \/ \E th \in Threads : DestroyNotify(th)
    \/ \E th \in Threads : DestroyJoin(th)
    \/ \E th \in Threads : SpuriousWake(th)

\* the constructing thread starts a new call
MainCalls ==
    \/ \E depth \in 0..(MaxTasks - 1), leaf \in {"plain", "throw"} : Submit(Main, depth, leaf)
    \/ \E t \in Tasks : Get(Main, t)
    \/ \E how \in {Async, Sync} : PoolWait(Main, how)
    \/ Destroy(Main)

\* another calling thread calls get() on a Future
OtherCalls == \E c \in Clients \ {Main}, t \in Tasks : Get(c, t)

Next == Steps \/ MainCalls \/ OtherCalls

Spec == Init /\ [][Next]_vars

\* only the constructing thread calls into the pool and uses Futures
NextMain == Steps \/ MainCalls

\* every thread inside a call is scheduled again, and a thread that finds the
\* mutex free again and again gets it; no wait is promised a spurious wake-up
FairSpec == Init /\ [][NextMain]_vars /\ \A th \in Threads : SF_vars(Run(th))

\* only the calling threads are promised to be scheduled: a worker may stay
\* where it is for ever
CallerFairSpec == Init /\ [][NextMain]_vars /\ \A c \in Clients : SF_vars(Run(c))

\* the calling threads also call wait() on the Futures they hold
FutureWaits ==
    \/ \E c \in Clients, t \in Tasks : WaitOn(c, t)
    \/ \E th \in Threads : FutureWait(th)

NextFutureWait == Steps \/ MainCalls \/ OtherCalls \/ FutureWaits

\* as Spec, with calls of Future::wait
FutureWaitSpec == Init /\ [][NextFutureWait]_vars

\* another calling thread calls pool.wait(Wait::Sync)
OtherWaits == \E c \in Clients \ {Main} : PoolWait(c, Sync)

\* several calling threads wait on the pool
NextWaiters == Steps \/ MainCalls \/ OtherWaits

\* as FairSpec, with calling threads that wait on the pool at the same time
WaitersFairSpec == Init /\ [][NextWaiters]_vars /\ \A th \in Threads : SF_vars(Run(th))

\* ---------------------------------------------------------------- Storage<N>
\* a Storage test that looks at the size only
InlinesBySize(n, ty) == ty.size <= n

\* Storage(size, alignment): size <= N && alignment <= inline_alignment
Inlines(n, ty) == ty.size <= n /\ ty.align <= inline_alignment

\* the next value to be created, the next block aligned_alloc returns
FreshValue == Cardinality({v \in Values : vtype[v] # NoType}) + 1
FreshBlock == Cardinality({b \in Blocks : allocs[b] > 0}) + 1

\* a destructor that frees nothing
NotReleased(o) == frees

\* ~Storage: if (m_data.index() == 1) aligned_free(ptr); the free counts afterwards
Released(o) == IF m_data[o] # 0 THEN [frees EXCEPT ![m_data[o]] = @ + 1] ELSE frees

\* Storage(T&& data): Storage(sizeof(T), alignof(T)) chooses the inline buffer
\* or a fresh heap block, and the value is constructed there
StorageConstruct(o, n, ty) ==
    /\ FreshValue \in Values
    /\ Inlines(n, ty) \/ FreshBlock \in Blocks
    /\ alive' = [alive EXCEPT ![o] = TRUE]
    /\ cap' = [cap EXCEPT ![o] = n]
    /\ vtype' = [vtype EXCEPT ![FreshValue] = ty]
    /\ held' = [held EXCEPT ![o] = FreshValue]
    /\ IF Inlines(n, ty)
       THEN m_data' = [m_data EXCEPT ![o] = 0] /\ UNCHANGED allocs
       ELSE /\ m_data' = [m_data EXCEPT ![o] = FreshBlock]
            /\ allocs' = [allocs EXCEPT ![FreshBlock] = @ + 1]
    /\ UNCHANGED frees

\* Storage() = default: the variant holds its first alternative, the inline buffer
StorageDefault(o, n) ==
    /\ alive' = [alive EXCEPT ![o] = TRUE]
    /\ cap' = [cap EXCEPT ![o] = n]
    /\ m_data' = [m_data EXCEPT ![o] = 0]
    /\ held' = [held EXCEPT ![o] = 0]
    /\ UNCHANGED <<vtype, allocs, frees>>

\* a move that copies the variant and leaves the source as it is
StorageShare(o, rhs) ==
    /\ m_data' = [m_data EXCEPT ![o] = m_data[rhs]]
    /\ held' = [held EXCEPT ![o] = held[rhs]]

\* m_data = std::move(rhs.m_data); rhs.m_data.emplace<0>();
StorageTake(o, rhs) ==
    /\ m_data' = [[m_data EXCEPT ![o] = m_data[rhs]] EXCEPT ![rhs] = 0]
    /\ held' = [[held EXCEPT ![o] = held[rhs]] EXCEPT ![rhs] = 0]

\* ~Storage, and the object is gone
StorageDestroy(o) ==
    /\ frees' = Released(o)
    /\ alive' = [alive EXCEPT ![o] = FALSE]
    /\ cap' = [cap EXCEPT ![o] = 0]
    /\ m_data' = [m_data EXCEPT ![o] = 0]
    /\ held' = [held EXCEPT ![o] = 0]
    /\ UNCHANGED <<vtype, allocs>>

\* Storage<N> s(value)
StorageCtor(o, n, ty) ==
    /\ ~alive[o]
    /\ StorageConstruct(o, n, ty)
    /\ UNCHANGED <<erasuredVars, ttpVars>>

\* Storage<N> s
StorageDefaultCtor(o, n) ==
    /\ ~alive[o]
    /\ StorageDefault(o, n)
    /\ UNCHANGED <<erasuredVars, ttpVars>>

\* Storage(Storage&& rhs)
StorageMoveCtor(o, rhs) ==
    /\ ~alive[o] /\ alive[rhs]
    /\ alive' = [alive EXCEPT ![o] = TRUE]
    /\ cap' = [cap EXCEPT ![o] = cap[rhs]]
    /\ StorageTake(o, rhs)
    /\ UNCHANGED <<vtype, allocs, frees, erasuredVars, ttpVars>>

\* Storage& operator=(Storage&& rhs): this->~Storage(), then as the move
\* constructor; rhs may be the object itself
StorageMoveAssign(o, rhs) ==
    /\ alive[o] /\ alive[rhs] /\ cap[o] = cap[rhs]
    /\ frees' = Released(o)
    /\ StorageTake(o, rhs)
    /\ UNCHANGED <<alive, cap, vtype, allocs, erasuredVars, ttpVars>>

\* the Storage goes out of scope
StorageDtor(o) ==
    /\ alive[o]
    /\ StorageDestroy(o)
    /\ UNCHANGED <<erasuredVars, ttpVars>>

StorageNext ==
    \/ \E o \in Objs, n \in Capacities, ty \in ValueTypes : StorageCtor(o, n, ty)
    \/ \E o \in Objs, n \in Capacities : StorageDefaultCtor(o, n)
    \/ \E o \in Objs, rhs \in Objs : StorageMoveCtor(o, rhs)
    \/ \E o \in Objs, rhs \in Objs : StorageMoveAssign(o, rhs)
    \/ \E o \in Objs : StorageDtor(o)

\* any sequence of constructions, moves and destructions of Storage objects
StorageSpec == Init /\ [][StorageNext]_vars

\* ------------------------------------------------------------ ErasuredType<N>
\* a move that copies the bytes and never calls the mover
NotRelocated(rhs) == moverCalls

\* a move that calls the mover wherever the value is
AlwaysRelocated(rhs) == [moverCalls EXCEPT ![captured[rhs]] = @ + 1]

\* operator=(ErasuredType&&), a valid rhs: a heap block changes hands with no
\* call of the mover, an inline value is moved by rhs.m_mover; the calls afterwards
Relocated(rhs) ==
    IF m_data[rhs] = 0 THEN [moverCalls EXCEPT ![captured[rhs]] = @ + 1] ELSE moverCalls

\* a move that leaves rhs.m_valid as it is
ValidityKeepsRhs(o, rhs) == [m_valid EXCEPT ![o] = TRUE]

\* operator=(ErasuredType&&), a valid rhs: m_valid = true; rhs.m_valid = false;
Validity(o, rhs) == [[m_valid EXCEPT ![o] = TRUE] EXCEPT ![rhs] = FALSE]

\* a container that calls the destroyer only for a value in its inline buffer
DestroyedInlineOnly(o) ==
    IF m_valid[o] /\ m_data[o] = 0
    THEN [destroyerCalls EXCEPT ![captured[o]] = @ + 1] ELSE destroyerCalls

\* if (m_valid) m_destroyer(m_storage.pointer()): the calls afterwards
Destroyed(o) ==
    IF m_valid[o] THEN [destroyerCalls EXCEPT ![captured[o]] = @ + 1] ELSE destroyerCalls

\* an assignment that destroys the old value and leaves m_valid set when the
\* source holds nothing
ErasuredAssignKeepsValid(o, rhs) ==
    /\ destroyerCalls' = Destroyed(o)
    /\ IF rhs = o \/ ~m_valid[rhs]
       THEN UNCHANGED <<m_valid, held, m_data, frees, captured, moverCalls>>
       ELSE /\ IF m_data[rhs] # 0
               THEN /\ frees' = Released(o)
                    /\ StorageTake(o, rhs)
               ELSE /\ moverCalls[captured[rhs]] < MaxMoves
                    /\ held' = [[held EXCEPT ![o] = held[rhs]] EXCEPT ![rhs] = 0]
                    /\ UNCHANGED <<m_data, frees>>
            /\ moverCalls' = Relocated(rhs)
            /\ captured' = [captured EXCEPT ![o] = captured[rhs]]
            /\ m_valid' = Validity(o, rhs)

\* ErasuredType& operator=(ErasuredType&& rhs) on the members of o; rhs may be
\* o itself, which the first statement has then made invalid
ErasuredAssign(o, rhs) ==
    /\ destroyerCalls' = Destroyed(o)
    /\ IF rhs = o \/ ~m_valid[rhs]
       THEN /\ m_valid' = [m_valid EXCEPT ![o] = FALSE]
            /\ held' = [held EXCEPT ![o] = IF m_valid[o] THEN 0 ELSE @]
            /\ UNCHANGED <<m_data, frees, captured, moverCalls>>
       ELSE /\ IF m_data[rhs] # 0
               THEN /\ frees' = Released(o)
                    /\ StorageTake(o, rhs)
               ELSE /\ moverCalls[captured[rhs]] < MaxMoves
                    /\ held' = [[held EXCEPT ![o] = held[rhs]] EXCEPT ![rhs] = 0]
                    /\ UNCHANGED <<m_data, frees>>
            /\ moverCalls' = Relocated(rhs)
            /\ captured' = [captured EXCEPT ![o] = captured[rhs]]
            /\ m_valid' = Validity(o, rhs)

\* ErasuredType<N> e(value): m_valid(true), m_storage(value), m_mover and
\* m_destroyer those of the value's type
ErasuredCtor(o, n, ty) ==
    /\ ~alive[o]
    /\ StorageConstruct(o, n, ty)
    /\ m_valid' = [m_valid EXCEPT ![o] = TRUE]
    /\ captured' = [captured EXCEPT ![o] = FreshValue]
    /\ UNCHANGED <<moverCalls, destroyerCalls, ttpVars>>

\* ErasuredType<N> e: m_valid(false)
ErasuredDefaultCtor(o, n) ==
    /\ ~alive[o]
    /\ StorageDefault(o, n)
    /\ UNCHANGED <<erasuredVars, ttpVars>>

\* ErasuredType(ErasuredType&& rhs): m_valid = false; *this = std::move(rhs);
ErasuredMoveCtor(o, rhs) ==
    /\ ~alive[o] /\ alive[rhs]
    /\ alive' = [alive EXCEPT ![o] = TRUE]
    /\ cap' = [cap EXCEPT ![o] = cap[rhs]]
    /\ ErasuredAssign(o, rhs)
    /\ UNCHANGED <<vtype, allocs, ttpVars>>

\* e = std::move(rhs)
ErasuredMoveAssign(o, rhs) ==
    /\ alive[o] /\ alive[rhs] /\ cap[o] = cap[rhs]
    /\ ErasuredAssign(o, rhs)
    /\ UNCHANGED <<alive, cap, vtype, allocs, ttpVars>>

\* ~ErasuredType: if (m_valid) m_destroyer(...); then ~Storage
ErasuredDtor(o) ==
    /\ alive[o]
    /\ destroyerCalls' = Destroyed(o)
    /\ StorageDestroy(o)
    /\ m_valid' = [m_valid EXCEPT ![o] = FALSE]
    /\ captured' = [captured EXCEPT ![o] = 0]
    /\ UNCHANGED <<moverCalls, ttpVars>>

ErasuredNext ==
    \/ \E o \in Objs, n \in Capacities, ty \in ErasuredTypes : ErasuredCtor(o, n, ty)
    \/ \E o \in Objs, n \in Capacities : ErasuredDefaultCtor(o, n)
    \/ \E o \in Objs, rhs \in Objs : ErasuredMoveCtor(o, rhs)
    \/ \E o \in Objs, rhs \in Objs : ErasuredMoveAssign(o, rhs)
    \/ \E o \in Objs : ErasuredDtor(o)

\* a valid() that reports whether function pointers were ever captured
CapturedValid(o) == captured[o] # 0

\* SizableUniqueFunction::valid(): m_type_erasured.valid(), which is m_valid; the
\* function object is its m_type_erasured member, its defaulted constructors
\* and assignments those of the member
valid(o) == m_valid[o]

\* any sequence of constructions, moves and destructions of ErasuredType objects
ErasuredSpec == Init /\ [][ErasuredNext]_vars

\* ------------------------------------------------------------------ claims
\* thread th has a frame at one of pcs working on task t
HasFrame(th, pcs, t) ==
    \E i \in 1..Len(stack[th]) : stack[th][i].pc \in pcs /\ stack[th][i].t = t

\* C1: the wrapped callable of every Task is invoked at most once whoever calls
\* try_run() (a worker, a thread draining in wait(Wait::Async), a thread in
\* Future::get()), and exactly once as soon as one try_run() call has claimed it.
C1_ExactlyOnce ==
    \A t \in Tasks : invoked[t] <= 1 /\ (m_worked_on[t] => invoked[t] = 1)

\* C1 happens: the try_run() of a calling thread's get() came back from a task
\* a worker had claimed, and the callable was invoked once
C1_Witness ==
    \E t \in Tasks, c \in Clients :
        /\ At(c, "get_read") /\ Top(c).t = t
        /\ runner[t] \in Workers
        /\ invoked[t] = 1

\* thread th is blocked in, or about to read, m_future.get() of Future::get on t
Reading(th, t) == At(th, "get_read") /\ Top(th).t = t

\* C2: in a pool of one worker, a task whose body submits another task and calls
\* get() on its Future completes once it is submitted (unless the pool is
\* destroyed before anyone claims it), at every nesting depth; and no thread
\* ever blocks in get() on a task nobody has claimed.
C2_NestedCompletes ==
    /\ \A t \in Tasks :
           (kind[t] = "nested" /\ t \in submitted)
               ~> (m_ready[t] \/ (m_quit /\ ~m_worked_on[t]))
    /\ [](\A th \in Threads, t \in Tasks : Reading(th, t) => m_worked_on[t])

\* C2 happens: the only worker ran a task of nesting depth two to its end, and
\* ran the task's child and grandchild itself
C2_Witness ==
    \E t \in Tasks :
        /\ Child(Child(t)) \in Tasks
        /\ kind[t] = "nested" /\ kind[Child(t)] = "nested"
        /\ m_ready[t]
        /\ runner[t] \in Workers
        /\ runner[Child(t)] = runner[t]
        /\ runner[Child(Child(t))] = runner[t]

\* C3: a calling thread's get() on a task no other thread has claimed, whose
\* callable does not itself call into the pool, returns (or throws) although no
\* worker is promised a single step, unless another thread claims the task first.
C3_GetRunsInline ==
    \A c \in Clients, t \in Tasks :
        (/\ HasFrame(c, {"get_read"}, t)
         /\ kind[t] \in {"plain", "throw"}
         /\ runner[t] \in {NoThread, c})
            ~> (result[t] # NotYet \/ runner[t] \notin {NoThread, c})

\* C3 happens: get() has returned from a task the calling thread ran itself,
\* the task is still in the queue and no worker has left its first statement
C3_Witness ==
    \E c \in Clients, t \in Tasks :
        /\ result[t] # NotYet
        /\ runner[t] = c
        /\ \E i \in 1..Len(m_tasks) : m_tasks[i] = t
        /\ \A w \in Workers : At(w, "dw_lock")
        /\ m_ongoing = 0

\* the callable of t is running: the m_task lambda has not yet stored an outcome
Running(t) == \E th \in Threads : HasFrame(th, {"mt_run", "mt_get", "mt_finish"}, t)

\* C4: whenever Future::get() has returned or thrown, the callable was invoked,
\* is no longer running, and its outcome is in the result channel and is what
\* get() delivered.
C4_GetAfterCompletion ==
    \A t \in Tasks :
        result[t] # NotYet =>
            /\ invoked[t] = 1
            /\ ~Running(t)
            /\ promise[t] # Empty
            /\ result[t] = promise[t]

\* C4 happens: get() has returned from a task that a worker ran
C4_Witness ==
    \E t \in Tasks : result[t] # NotYet /\ runner[t] \in Workers /\ fut[t] = "used"

\* the body of t fails: its callable throws, or the get() it calls on its child rethrows
RECURSIVE Fails(_)
Fails(t) ==
    \/ kind[t] = "throw"
    \/ kind[t] = "nested" /\ Child(t) \in Tasks /\ Fails(Child(t))

\* the try_run() call that claimed t has returned to its caller
TryRunReturned(t) ==
    /\ invoked[t] = 1
    /\ \A th \in Threads :
           ~HasFrame(th, {"mt_run", "mt_get", "mt_finish", "mt_barrier", "tr_ready"}, t)

\* C5: no exception of a callable ends the program, and once the try_run() that
\* ran a failing callable has returned, the failure is in the result channel,
\* the completion signal is set and the Task is ready, as on a normal return.
C5_FailureIsStored ==
    /\ ~terminated
    /\ \A t \in Tasks :
           (Fails(t) /\ TryRunReturned(t)) =>
               promise[t] = Exc /\ barrier[t] /\ m_ready[t]

\* C5 happens: a worker ran a throwing callable and then a later task to its end
C5_Witness ==
    \E t \in Tasks, u \in Tasks :
        /\ t < u
        /\ kind[t] = "throw" /\ kind[u] = "plain"
        /\ runner[t] \in Workers /\ runner[u] = runner[t]
        /\ TryRunReturned(t) /\ m_ready[u]

\* what get() has to deliver for t
Expected(t) == IF Fails(t) THEN Exc ELSE Value(Callable(t))

\* C6: get() throws if and only if the body failed and otherwise returns the
\* callable's value, and a get() waiting for the outcome does get one.
C6_FailureIffBodyFailed ==
    /\ [](\A t \in Tasks : result[t] # NotYet => result[t] = Expected(t))
    /\ \A t \in Tasks : (\E th \in Threads : Reading(th, t)) ~> (result[t] # NotYet)

\* C6 happens: get() threw out of a nested task a worker ran, because the
\* callable of the task's child threw
C6_Witness ==
    \E t \in Tasks :
        /\ kind[t] = "nested" /\ Child(t) \in Tasks /\ kind[Child(t)] = "throw"
        /\ result[t] = Exc
        /\ runner[t] \in Workers

\* thread c is about to return from pool.wait(how)
Returning(c, how) == At(c, "pw_ret") /\ Top(c).how = how

\* thread c is inside pool.wait
InWait(c) ==
    \E i \in 1..Len(stack[c]) :
        stack[c][i].pc \in {"pw_lock", "pw_empty", "pw_dec", "pw_lock2", "pw_pred",
                            "pw_block", "pw_blocked", "pw_ret"}

\* C7: when wait(Wait::Async) returns, the callable of every task submitted
\* before the call has finished and delivered its outcome.
C7_WaitAsyncAllFinished ==
    \A c \in Clients :
        Returning(c, Async) => \A t \in Top(c).snap : promise[t] # Empty

\* C8: when wait(Wait::Sync) returns, the callable of every task submitted
\* before the call has finished; none of them is still unclaimed in the queue.
C8_WaitSyncAllFinished ==
    \A c \in Clients :
        Returning(c, Sync) => \A t \in Top(c).snap : promise[t] # Empty

\* C9: a thread that has called pool.wait() eventually returns from it.
C9_WaitReturns ==
    \A c \in Clients : InWait(c) ~> At(c, "pw_ret")

\* C10: a task in the queue of a pool that is not being destroyed is eventually
\* taken out of the queue and is ready.
C10_SubmittedGetsDone ==
    \A t \in Tasks :
        (\E i \in 1..Len(m_tasks) : m_tasks[i] = t)
            ~> (m_quit \/ (m_ready[t] /\ \A i \in 1..Len(m_tasks) : m_tasks[i] # t))

\* C10 happens: a worker has taken the task out of the queue, run it to its end
\* and is blocked on the work condition again, the queue being empty
C10_Witness ==
    \E t \in Tasks :
        /\ ~m_quit
        /\ runner[t] \in Workers
        /\ m_ready[t]
        /\ m_tasks = <<>>
        /\ At(runner[t], "dw_blocked")

\* C11: the tasks are taken out of the queue in the order they were pushed
\* into it, whoever takes them: those popped so far, followed by those still
\* in the queue, are those pushed so far, in the order of the pushes.
C11_Fifo == deq \o m_tasks = enq

\* C11 happens: a task pushed by a running callable went in after a task
\* created later than it, and a worker and a drainer popped one task each
C11_Witness ==
    /\ Len(deq) >= 2
    /\ \E i \in 1..Len(enq) : \E j \in 1..Len(enq) : i < j /\ enq[i] > enq[j]
    /\ \E w \in Workers : At(w, "dw_dec")
    /\ At(Main, "pw_dec")

\* C12: once the destructor has set the shutdown flag, every worker leaves
\* do_work and the destructor's join returns.
C12_DestructionTerminates == m_quit ~> joined

\* the pc of the innermost call of th after the step
NextPc(th) == stack'[th][Len(stack'[th])].pc

\* C13: a worker that evaluates its wake condition, or the test of the flag
\* after it, with the shutdown flag set leaves do_work and pops nothing, even
\* when the queue is not empty; and once the pool is destroyed a task that was
\* never invoked is invoked only by the get() of its Future.
C13_QueuedTasksAbandoned ==
    [][/\ \A w \in Workers :
             (m_quit /\ Top(w).pc \in {"dw_pred", "dw_quit"} /\ stack'[w] # stack[w])
                 => /\ deq' = deq /\ m_tasks' = m_tasks
                    /\ NextPc(w) = IF Top(w).pc = "dw_pred" THEN "dw_quit" ELSE "dw_done"
       /\ \A t \in Tasks :
             (joined /\ invoked[t] = 0 /\ invoked'[t] = 1)
                 => \E c \in Clients : runner'[t] = c /\ HasFrame(c, {"get_read"}, t)]_vars

\* C13 happens: the pool is destroyed, every worker has left with a task still
\* in the queue, and that task was not invoked and its Future not used
C13_Witness ==
    /\ joined
    /\ \A w \in Workers : At(w, "dw_done")
    /\ \E i \in 1..Len(m_tasks) :
           invoked[m_tasks[i]] = 0 /\ fut[m_tasks[i]] = "held"

\* C14: with the pool destroyed, a get() finds its task claimed, by a worker
\* or by itself; the callable is invoked once, never again after a worker ran
\* it; what get() delivers is the outcome of the task's own callable; and the
\* get() does return.
C14_FutureOutlivesPool ==
    /\ [](joined =>
             \A t \in Tasks :
                 /\ invoked[t] <= 1
                 /\ result[t] # NotYet => invoked[t] = 1 /\ result[t] = Expected(t)
                 /\ \A c \in Clients :
                        Reading(c, t) =>
                            m_worked_on[t] /\ (runner[t] \in Workers \/ runner[t] = c))
    /\ \A t \in Tasks :
           (joined /\ \E c \in Clients : HasFrame(c, {"get_read"}, t))
               ~> (result[t] # NotYet)

\* C14 happens: the thread that destroyed the pool is inside get() on a task
\* left in the queue, has run the callable itself and is about to return
C14_Witness ==
    \E t \in Tasks :
        /\ joined
        /\ Reading(Main, t)
        /\ runner[t] = Main
        /\ invoked[t] = 1
        /\ promise[t] # Empty
        /\ \E i \in 1..Len(m_tasks) : m_tasks[i] = t

\* C15: the get() of the Future of the i-th task created (i counted from 0)
\* returns 2 * i + 3, the value of the i-th callable on the i-th arguments,
\* whoever ran the task and in whatever order the tasks ran.
C15_OwnResult ==
    \A t \in Tasks :
        (result[t] # NotYet /\ ~Fails(t)) => result[t] = Value(2 * (t - 1) + 3)

\* C15 happens: get() has returned the value of a later task, run by a calling
\* thread, while an earlier task has not even started
C15_Witness ==
    \E t \in Tasks, u \in Tasks :
        /\ u < t
        /\ kind[u] = "plain" /\ invoked[u] = 0
        /\ result[t] = Value(2 * (t - 1) + 3)
        /\ runner[t] \in Clients

\* C16: a Storage<N> constructed with a value of size s and alignment a uses
\* its inline buffer if and only if s <= N and a <= alignof(std::max_align_t);
\* otherwise the value is in a heap block allocated for it.
C16_InlineIffFits ==
    [][\A o \in Objs :
          (~alive[o] /\ alive'[o] /\ held'[o] # 0 /\ vtype[held'[o]] = NoType)
              => LET ty == vtype'[held'[o]] IN
                 /\ (m_data'[o] = 0) <=> (ty.size <= cap'[o] /\ ty.align <= 16)
                 /\ m_data'[o] # 0 =>
                        allocs[m_data'[o]] = 0 /\ allocs'[m_data'[o]] = 1]_vars

\* C16 happens: a value that fits a Storage<32> by size but not by alignment
\* is on the heap, next to a value at both limits that is inline
C16_Witness ==
    \E o \in Objs, q \in Objs :
        /\ alive[o] /\ cap[o] = 32 /\ held[o] # 0
        /\ vtype[held[o]] = Type(32, 32) /\ m_data[o] # 0
        /\ alive[q] /\ cap[q] = 32 /\ held[q] # 0
        /\ vtype[held[q]] = Type(32, 16) /\ m_data[q] = 0

\* C17: through constructions and move-assignments is_inlined() is that of the
\* value the Storage holds; a heap block is never freed twice and is freed or
\* owned by exactly one Storage; with every Storage destroyed every block
\* allocated has been freed.
C17_NoLeakNoDoubleFree ==
    /\ \A o \in Objs :
           (alive[o] /\ held[o] # 0) =>
               ((m_data[o] = 0) <=>
                    (vtype[held[o]].size <= cap[o] /\ vtype[held[o]].align <= 16))
    /\ \A b \in Blocks :
           /\ allocs[b] <= 1 /\ frees[b] <= allocs[b]
           /\ allocs[b] - frees[b] = Cardinality({o \in Objs : alive[o] /\ m_data[o] = b})
    /\ (\A o \in Objs : ~alive[o]) => \A b \in Blocks : frees[b] = allocs[b]

\* C17 happens: a Storage<4> holds the third value of the run, 4 bytes and
\* inline, after a 4-byte and an 8-byte value, whose heap block is freed
C17_Witness ==
    \E o \in Objs :
        /\ alive[o] /\ cap[o] = 4 /\ held[o] = 3 /\ m_data[o] = 0
        /\ vtype[1] = Type(4, 4) /\ vtype[2] = Type(8, 8) /\ vtype[3] = Type(4, 4)
        /\ allocs[1] = 1 /\ frees[1] = 1
        /\ \A q \in Objs \ {o} : ~alive[q]

\* the step moves the value of the valid container rhs into another container o
MoveStep(o, rhs) ==
    /\ o # rhs
    /\ alive[rhs] /\ m_valid[rhs]
    /\ alive'[o] /\ m_valid'[o] /\ captured'[o] = captured[rhs]

\* the step destroys container o
DtorStep(o) == alive[o] /\ ~alive'[o]

\* every container is destroyed
AllGone == \A o \in Objs : ~alive[o]

C19_HeapMoveRelocatesNothing ==
    [][\A o \in Objs, rhs \in Objs :
          /\ (MoveStep(o, rhs) /\ m_data[rhs] # 0) =>
                 /\ moverCalls' = moverCalls
                 /\ destroyerCalls'[captured[rhs]] = destroyerCalls[captured[rhs]]
                 /\ m_data'[o] = m_data[rhs] /\ m_data'[rhs] = 0
          /\ (DtorStep(o) /\ m_valid[o] /\ m_data[o] # 0) =>
                 /\ destroyerCalls[captured[o]] = 0 /\ destroyerCalls'[captured[o]] = 1
                 /\ frees[m_data[o]] = 0 /\ frees'[m_data[o]] = 1]_vars

\* C19 happens: a heap value is in its third container, the two it went
\* through are moved-from, and no mover was called
C19_Witness ==
    \E o \in Objs :
        /\ alive[o] /\ m_valid[o] /\ m_data[o] # 0
        /\ ~Inlines(cap[o], vtype[captured[o]])
        /\ moverCalls[captured[o]] = 0
        /\ \A q \in Objs \ {o} : alive[q] /\ ~m_valid[q] /\ captured[q] = captured[o]

\* C20: a container that is moved from is not valid afterwards; the destructor
\* of a container that is not valid calls neither a destroyer nor a mover; and
\* at most one container is valid for a value.
C20_MovedFromIsInvalid ==
    /\ [][\A o \in Objs :
              /\ \A rhs \in Objs : MoveStep(o, rhs) => ~m_valid'[rhs]
              /\ (DtorStep(o) /\ ~m_valid[o]) =>
                     moverCalls' = moverCalls /\ destroyerCalls' = destroyerCalls]_vars
    /\ [](\A v \in Values :
             Cardinality({o \in Objs : alive[o] /\ m_valid[o] /\ captured[o] = v}) <= 1)

\* C20 happens: an inline value is in a container into which it was moved, its
\* first container is moved-from and not valid, and a third one is destroyed
C20_Witness ==
    \E o \in Objs, q \in Objs :
        /\ alive[o] /\ m_valid[o] /\ m_data[o] = 0
        /\ alive[q] /\ ~m_valid[q] /\ captured[q] = captured[o]
        /\ moverCalls[captured[o]] = 2
        /\ \A r \in Objs \ {o, q} : ~alive[r]

\* the step moves the callable that container rhs holds into another container o
Moved(o, rhs) ==
    /\ o # rhs
    /\ alive[rhs] /\ held[rhs] # 0
    /\ alive'[o] /\ held'[o] = held[rhs]

\* C21: valid() is true exactly when the function object holds a callable:
\* false after default construction, true after construction from a callable,
\* true for the destination and false for the source of a move from an object
\* that holds one.
C21_ValidIffHolds ==
    /\ [](\A o \in Objs : alive[o] => (valid(o) <=> held[o] # 0))
    /\ [][\A o \in Objs :
              /\ (~alive[o] /\ alive'[o] /\ held'[o] = 0) => ~valid(o)'
              /\ (~alive[o] /\ alive'[o] /\ held'[o] # 0) => valid(o)'
              /\ \A rhs \in Objs : Moved(o, rhs) => valid(o)' /\ ~valid(rhs)']_vars

\* C21 happens: one function object holds a callable that was moved into it, the
\* object it was moved from and a default-constructed one hold none
C21_Witness ==
    \E o \in Objs, q \in Objs, r \in Objs :
        /\ alive[o] /\ valid(o) /\ held[o] # 0
        /\ alive[q] /\ ~valid(q) /\ captured[q] = captured[o]
        /\ alive[r] /\ ~valid(r) /\ captured[r] = 0

\* C22: whenever Future::get() has returned or thrown, the Task is complete:
\* task_barrier is set, so that Task::wait() would not block, whichever thread
\* ran the Task.
C22_GetImpliesComplete ==
    \A t \in Tasks : result[t] # NotYet => barrier[t]

\* C23: a thread whose try_run() finds the Task claimed can always take its
\* step, and the step returns from try_run() to the caller without invoking
\* the callable and without changing the Task, whether or not the thread that
\* claimed it has finished.
C23_LoserReturnsAtOnce ==
    /\ [](\A th \in Threads :
             (At(th, "tr_claim") /\ m_worked_on[Top(th).t]) => ENABLED TryRun(th))
    /\ [][\A th \in Threads :
              (At(th, "tr_claim") /\ m_worked_on[Top(th).t] /\ stack'[th] # stack[th])
                  => /\ stack'[th] = Return(th)
                     /\ invoked' = invoked /\ runner' = runner
                     /\ m_ready' = m_ready /\ promise' = promise]_vars

\* C23 happens: try_run() has returned to the worker that popped the task,
\* while the calling thread that claimed it in get() is still running the callable
C23_Witness ==
    \E t \in Tasks, w \in Workers :
        /\ deq = <<t>>
        /\ At(w, "dw_dec")
        /\ runner[t] \in Clients
        /\ Running(t) /\ ~m_ready[t]

\* thread th has popped a task and not yet executed its --m_ongoing
InFlight(th) == \E i \in 1..Len(stack[th]) : stack[th][i].pc \in {"dw_dec", "pw_dec"}

\* C24: m_ongoing is never negative and is the number of threads, workers and
\* threads draining in wait(Wait::Async), that have popped a task and not yet
\* decremented; no task is popped twice.
C24_OngoingCountsActors ==
    /\ m_ongoing >= 0
    /\ m_ongoing = Cardinality({th \in Threads : InFlight(th)})
    /\ \A i \in 1..Len(deq), j \in 1..Len(deq) : deq[i] = deq[j] => i = j

\* C24 happens: a worker and a draining thread have popped one task each and
\* neither has decremented, after a first task went through the count
C24_Witness ==
    /\ m_ongoing = 2
    /\ Len(deq) = 3
    /\ \E w \in Workers : InFlight(w)
    /\ InFlight(Main)

\* the Task is claimed and its completion signal is not yet set
RunningState(t) == m_worked_on[t] /\ ~barrier[t]

\* C25: m_ongoing is the number of Tasks that are being executed, those run
\* inline by Future::get() included, a thread whose try_run() lost the claim
\* not counted.
C25_OngoingCountsRunning ==
    m_ongoing = Cardinality({t \in Tasks : RunningState(t)})

\* C26: every step that pushes into or pops from the queue, and every step
\* that increments or decrements m_ongoing, is taken by the thread that holds
\* m_task_mutex.
C26_QueueAndCountUnderMutex ==
    [][(m_tasks' # m_tasks \/ m_ongoing' # m_ongoing)
          => \E th \in Threads : mutex = th /\ stack'[th] # stack[th]]_vars

\* thread c is in pool.wait(Wait::Sync), its innermost call
InSyncWait(c) ==
    /\ Top(c).how = Sync
    /\ Top(c).pc \in {"pw_lock", "pw_empty", "pw_dec", "pw_lock2", "pw_pred", "pw_block",
                      "pw_blocked", "pw_ret"}

\* C27: no step of a thread inside wait(Wait::Sync) changes the queue, the
\* claim flag of a Task, the number of invocations or m_ongoing, and the thread
\* gets to the return only from the predicate, evaluated with the mutex held
\* and m_ongoing equal to zero.
C27_SyncWaitOnlyBlocks ==
    [][\A c \in Clients :
          (InSyncWait(c) /\ stack'[c] # stack[c])
              => /\ m_tasks' = m_tasks /\ deq' = deq
                 /\ m_worked_on' = m_worked_on /\ invoked' = invoked
                 /\ m_ongoing' = m_ongoing
                 /\ (Top(c).pc # "pw_ret" /\ NextPc(c) = "pw_ret")
                        => (Top(c).pc = "pw_pred" /\ mutex = c /\ m_ongoing = 0)]_vars

\* C27 happens: wait(Wait::Sync) is about to return with tasks still in the
\* queue that nobody has claimed, after a worker popped and ran an earlier one
C27_Witness ==
    /\ Returning(Main, Sync)
    /\ Len(deq) >= 1 /\ m_ready[deq[1]]
    /\ m_tasks # <<>>
    /\ \A i \in 1..Len(m_tasks) : ~m_worked_on[m_tasks[i]]

\* C28: every waiter is woken when m_ongoing reaches zero: of two threads
\* blocked in wait() at the same time each one returns, and a thread blocked in
\* wait(Wait::Sync) returns when the last task in flight is one popped by a
\* thread draining in wait(Wait::Async).
C28_EveryWaiterWoken ==
    \A c \in Clients :
        (/\ At(c, "pw_blocked")
         /\ \E d \in Clients \ {c} :
                \/ At(d, "pw_blocked")
                \/ Top(c).how = Sync /\ InFlight(d) /\ m_ongoing = 1)
            ~> At(c, "pw_ret")

\* C29: a thread inside Future::wait() claims no Task, invokes no callable and
\* touches neither the queue nor m_ongoing; it returns only when the callable was
\* invoked by a try_run() of some call other than this one and the outcome is
\* in the result channel, and it leaves the outcome there: the Future is held
\* again, and a later get() on it delivers the outcome of the task.
C29_FutureWaitOnlyBlocks ==
    /\ [][\A th \in Threads :
              (Top(th).pc = "fw_wait" /\ stack'[th] # stack[th])
                  => /\ m_worked_on' = m_worked_on /\ invoked' = invoked /\ runner' = runner
                     /\ m_tasks' = m_tasks /\ m_ongoing' = m_ongoing
                     /\ promise' = promise /\ result' = result
                     /\ promise[Top(th).t] # Empty
                     /\ invoked[Top(th).t] = 1 /\ runner[Top(th).t] # NoThread
                     /\ fut'[Top(th).t] = "held"]_vars
    /\ [](\A t \in waited : result[t] # NotYet => result[t] = Expected(t))

\* C29 happens: wait() returned on the Future of a task a worker ran, and the
\* get() called on the same Future afterwards returned the task's value
C29_Witness ==
    \E t \in waited :
        /\ runner[t] \in Workers
        /\ fut[t] = "used"
        /\ result[t] = Value(Callable(t))

\* the Storage objects whose m_data holds heap block b
Owners(b) == {o \in Objs : alive[o] /\ m_data[o] = b}

\* C30: a heap block that is allocated and not freed is held by exactly one
\* Storage, a freed block by none, and no block is freed twice; a step that
\* takes a block from one Storage to another leaves the source alive with the
\* empty inline buffer, does not free the block, and frees the block the
\* destination held before.
C30_HeapBlockHasOneOwner ==
    /\ [](\A b \in Blocks :
             /\ frees[b] <= 1 /\ frees[b] <= allocs[b]
             /\ Cardinality(Owners(b)) = allocs[b] - frees[b])
    /\ [][\A b \in Blocks, o \in Objs, rhs \in Objs :
              (o # rhs /\ rhs \in Owners(b) /\ o \in Owners(b)')
                  => /\ alive'[rhs] /\ m_data'[rhs] = 0 /\ held'[rhs] = 0
                     /\ held'[o] = held[rhs]
                     /\ frees'[b] = frees[b]
                     /\ (alive[o] /\ m_data[o] # 0)
                            => frees'[m_data[o]] = frees[m_data[o]] + 1]_vars

\* C30 happens: a Storage that held the first block holds the second one, the
\* first block is freed, and the Storage the second block came from is empty
C30_Witness ==
    \E o \in Objs, rhs \in Objs :
        /\ o # rhs
        /\ Owners(2) = {o} /\ held[o] = 2
        /\ alive[rhs] /\ m_data[rhs] = 0 /\ held[rhs] = 0
        /\ allocs = [b \in Blocks |-> 1]
        /\ frees = [b \in Blocks |-> IF b = 1 THEN 1 ELSE 0]
        /\ \A q \in Objs \ {o, rhs} : ~alive[q]
        /\ \A v \in Values : v > 2 => vtype[v] = NoType

\* C31: a move from a container that holds its value inline calls the value's
\* destroyer on what the mover left in the source, so that once every container
\* is destroyed the destroyer was called once for the value constructed into
\* the first container and once for every instance a mover constructed.
C31_MovedFromRemainsDestroyed ==
    /\ [][\A o \in Objs, rhs \in Objs :
              (MoveStep(o, rhs) /\ m_data[rhs] = 0) =>
                  destroyerCalls'[captured[rhs]] = destroyerCalls[captured[rhs]] + 1]_vars
    /\ [](\A v \in Values :
             (AllGone /\ vtype[v] # NoType) => destroyerCalls[v] = 1 + moverCalls[v])

\* ErasuredType::inlined(): m_storage.is_inlined(), m_data.index() == 0
inlined(o) == m_data[o] = 0

\* C32: a move-assignment from a container that holds its value inline puts
\* the value into the inline buffer of the destination: the destination reports
\* inlined() afterwards, and the value is not in a heap block that the
\* destination kept from the value it held before.
C32_InlineMoveLandsInline ==
    [][\A o \in Objs, rhs \in Objs :
          (MoveStep(o, rhs) /\ alive[o] /\ inlined(rhs)) => inlined(o)']_vars

\* the step assigns to container o, which holds a value and is not moved from:
\* afterwards o holds another value or none, and no other container holds the
\* value o held
Overwritten(o) ==
    /\ alive[o] /\ alive'[o] /\ m_valid[o]
    /\ held'[o] # held[o]
    /\ \A q \in Objs \ {o} : held'[q] # held[o]

\* C33: a move-assignment onto a container that holds a value calls the
\* destroyer of that value, for the first and only time; when the source holds
\* nothing, the container itself included, the destination is not valid
\* afterwards; and no destroyer is ever called twice for a value.
C33_OverwrittenValueDestroyedOnce ==
    /\ [][\A o \in Objs :
              Overwritten(o) =>
                  /\ destroyerCalls[held[o]] = 0 /\ destroyerCalls'[held[o]] = 1
                  /\ held'[o] = 0 => ~m_valid'[o]
                  /\ held'[o] # 0 => m_valid'[o] /\ captured'[o] = held'[o]]_vars
    /\ [](\A v \in Values : destroyerCalls[v] <= 1)

\* C33 happens: the container an inline value was constructed in, from which
\* it was never moved, was assigned from a source holding nothing: the value
\* was destroyed once and the container is alive and not valid
C33_Witness ==
    \E o \in Objs :
        /\ alive[o] /\ ~m_valid[o] /\ captured[o] = 1 /\ held[o] = 0
        /\ Inlines(cap[o], vtype[1])
        /\ allocs = [b \in Blocks |-> 0]
        /\ moverCalls[1] = 0
        /\ destroyerCalls[1] = 1

C35_NoPopFromEmptyQueue ==
    /\ [](\A w \in Threads : At(w, "dw_take") => mutex = w /\ m_tasks # <<>>)
    /\ [][deq' # deq =>
              /\ m_tasks # <<>>
              /\ deq' = Append(deq, Head(m_tasks))
              /\ m_tasks' = Tail(m_tasks)]_vars

\* C35 happens: the destructor has set the shutdown flag while a worker, past
\* its test of the flag, is about to take the front task, after a draining
\* thread had popped an earlier one
C35_Witness ==
    \E w \in Workers :
        /\ At(w, "dw_take")
        /\ m_quit
        /\ Len(deq) >= 1
        /\ m_tasks # <<>>

\* C36: a Task that is ready has its completion signal set, and a Task whose
\* completion signal is set has an outcome in its result channel; the outcome,
\* the signal and the readiness flag, once there, stay as they are.
C36_CompletionStepsOrdered ==
    /\ [](\A t \in Tasks :
             /\ m_ready[t] => barrier[t]
             /\ barrier[t] => promise[t] # Empty)
    /\ [][\A t \in Tasks :
              /\ m_ready[t] => m_ready'[t]
              /\ barrier[t] => barrier'[t]
              /\ promise[t] # Empty => promise'[t] = promise[t]]_vars

\* C36 happens: a task that threw is ready, run inline by a calling thread,
\* while the outcome of another task is delivered and its completion signal
\* is not yet set
C36_Witness ==
    \E t \in Tasks, u \in Tasks :
        /\ m_ready[t] /\ promise[t] = Exc /\ runner[t] \in Clients
        /\ promise[u] # Empty /\ ~barrier[u] /\ ~m_ready[u]

====
